---- MODULE Spec2Model ----
(***************************************************************************)
(* A model of plugins/check_apt.c: main sequences an optional              *)
(* "apt-get update" (run_update) and one simulated "apt-get upgrade"       *)
(* (run_upgrade), folds their results into one severity and prints one     *)
(* status line.  The child processes are the environment: their exit       *)
(* status and their two captured streams are chosen nondeterministically.  *)
(***************************************************************************)
EXTENDS Integers, Sequences, FiniteSets, TLC

(* ------------------------------------------------------------------ *)
(* Bounds of the model                                                 *)
(* ------------------------------------------------------------------ *)
MaxLines == 3        \* stdout lines captured from the upgrade simulation
MaxTimeout == 2      \* largest timeout_interval (seconds) given with -t

(* ------------------------------------------------------------------ *)
(* Program constants                                                   *)
(* ------------------------------------------------------------------ *)
STATE_OK == 0
STATE_WARNING == 1
STATE_CRITICAL == 2
STATE_UNKNOWN == 3

APTGET_UPGRADE == "/usr/bin/apt-get -o 'Debug::NoLocking=true' -s -qq upgrade"
APTGET_DISTUPGRADE == "/usr/bin/apt-get -o 'Debug::NoLocking=true' -s -qq dist-upgrade"
APTGET_UPDATE == "/usr/bin/apt-get -q update"

\* the literal "Inst" of the strncmp call, as a C string
InstMarker == <<"I", "n", "s", "t">>
InstMarkerLen == 4

NUL == "\\0"

(* ------------------------------------------------------------------ *)
(* The environment: what a child process can produce                   *)
(* ------------------------------------------------------------------ *)
\* exit statuses of a child: success and one failure
ExitStatuses == {0, 1}

\* verbose is only ever tested against zero
VerboseLevels == {0, 1}

LineInst == <<"I", "n", "s", "t", " ", "a">>
LineConf == <<"C", "o", "n", "f", " ", "a">>
LineLower == <<"i", "n", "s", "t">>
LineIndented == <<" ", "I", "n", "s", "t">>
LineShort == <<"I", "n", "s">>
LineBlank == <<>>

StdoutLines == {LineInst, LineConf, LineLower, LineIndented, LineShort, LineBlank}
LineError == <<"E">>

SeqsUpTo(S, n) == UNION {[1..k -> S] : k \in 0..n}

RECURSIVE Bytes(_)
\* the raw length of a stream of newline-terminated lines
Bytes(ls) == IF ls = <<>> THEN 0 ELSE Len(Head(ls)) + 1 + Bytes(Tail(ls))

\* struct output as np_runcmd fills it
Capture(ls) == [line |-> ls, lines |-> Len(ls), buflen |-> Bytes(ls)]

\* what the upgrade simulation prints: any mix of marker and "Conf" lines,
\* and every kind of line alone, after a marker line and before one
StdoutSeqs ==
  SeqsUpTo({LineInst, LineConf}, MaxLines)
    \cup {<<l>> : l \in StdoutLines}
    \cup {<<LineInst, l>> : l \in StdoutLines}
    \cup {<<l, LineInst>> : l \in StdoutLines}

UpgradeOutputs == {Capture(ls) : ls \in StdoutSeqs}
\* the refresh prints nothing, or a line that looks like a marker line
UpdateOutputs == {Capture(<<>>), Capture(<<LineInst>>)}
\* stderr is empty, one bare newline, or one line of text
ErrOutputs == {Capture(<<>>), Capture(<<LineBlank>>), Capture(<<LineError>>)}

(* ------------------------------------------------------------------ *)
(* Helpers of the code                                                 *)
(* ------------------------------------------------------------------ *)
\* the greater of two states under OK < WARNING < CRITICAL < UNKNOWN
max_state(a, b) == IF a >= b THEN a ELSE b

state_text(r) ==
  CASE r = STATE_OK -> "OK"
    [] r = STATE_WARNING -> "WARNING"
    [] r = STATE_CRITICAL -> "CRITICAL"
    [] OTHER -> "UNKNOWN"

\* the character at 0-based index i of a NUL-terminated string
CharAt(s, i) == IF i < Len(s) THEN s[i + 1] ELSE NUL

RECURSIVE StrncmpFrom(_, _, _, _)
StrncmpFrom(s1, s2, i, n) ==
  IF i >= n THEN 0
  ELSE IF CharAt(s1, i) # CharAt(s2, i) THEN 1
  ELSE IF CharAt(s1, i) = NUL THEN 0
  ELSE StrncmpFrom(s1, s2, i + 1, n)

\* 0 when the first n characters agree, non-zero otherwise
strncmp(s1, s2, n) == StrncmpFrom(s1, s2, 0, n)

IsInstLineShortPrefix(l) == strncmp(l, InstMarker, InstMarkerLen - 1) = 0
\* the test of the counting loop of run_upgrade
IsInstLine(l) == strncmp(l, InstMarker, InstMarkerLen) = 0

RECURSIVE CountInst(_, _)
\* the counting loop of run_upgrade, from index i (1-based) on
CountInst(ls, i) ==
  IF i > Len(ls) THEN 0
  ELSE (IF IsInstLine(ls[i]) THEN 1 ELSE 0) + CountInst(ls, i + 1)

\* what a loop "printf("%s\n", line[i])" appends to stdout
Echo(ls) == [i \in 1..Len(ls) |-> [kind |-> "echo", text |-> ls[i]]]

\* the lines of chld_out that run_upgrade echoes when verbose
InstLinesOf(ls) == SelectSeq(ls, IsInstLine)


(* ------------------------------------------------------------------ *)
(* State                                                               *)
(* ------------------------------------------------------------------ *)
VARIABLES
  verbose,            \* static int verbose
  do_update,          \* static int do_update
  dist_upgrade,       \* static int dist_upgrade
  timeout_interval,   \* seconds given to alarm()
  stderr_warning,     \* static int stderr_warning
  exec_warning,       \* static int exec_warning
  result,             \* main's running result
  packages_available, \* main's packages_available
  pc,                 \* where main is
  alarmRemaining,     \* seconds until SIGALRM, 0 when no alarm is pending
  alarmCalls,         \* how many times alarm() was called
  calls,              \* the np_runcmd invocations, in order
  outLog,             \* what was written to stdout
  errLog,             \* what was written to stderr
  verdict             \* <<>> or the one status line / return value of main

vars == <<verbose, do_update, dist_upgrade, timeout_interval, stderr_warning,
          exec_warning, result, packages_available, pc, alarmRemaining,
          alarmCalls, calls, outLog, errLog, verdict>>

config == <<verbose, do_update, dist_upgrade, timeout_interval>>

EmptyOutput == Capture(<<>>)

\* an np_runcmd call that has not returned yet
Running(cmd) == [cmd |-> cmd, done |-> FALSE, status |-> 0,
                 out |-> EmptyOutput, err |-> EmptyOutput]

\* the same call once the child has exited
Returned(cmd, status, out, err) == [cmd |-> cmd, done |-> TRUE, status |-> status,
                                    out |-> out, err |-> err]

Finish(cs, status, out, err) ==
  [cs EXCEPT ![Len(cs)] = Returned(cs[Len(cs)].cmd, status, out, err)]

\* the statics as declared, main's locals as initialised; the options are
\* whatever process_arguments parsed
Init ==
  /\ verbose \in VerboseLevels
  /\ do_update \in {0, 1}
  /\ dist_upgrade \in {0, 1}
  /\ timeout_interval \in 0..MaxTimeout
  /\ stderr_warning = 0
  /\ exec_warning = 0
  /\ result = STATE_UNKNOWN
  /\ packages_available = 0
  /\ pc = "main"
  /\ alarmRemaining = 0
  /\ alarmCalls = 0
  /\ calls = <<>>
  /\ outLog = <<>>
  /\ errLog = <<>>
  /\ verdict = <<>>

(* ------------------------------------------------------------------ *)
(* main, up to the first invocation                                    *)
(* ------------------------------------------------------------------ *)
\* signal(SIGALRM, ...); alarm(timeout_interval);
ArmAlarm ==
  /\ pc = "main"
  /\ alarmRemaining' = timeout_interval
  /\ alarmCalls' = alarmCalls + 1
  /\ pc' = "Init"
  /\ UNCHANGED <<config, stderr_warning, exec_warning, result,
                 packages_available, calls, outLog, errLog, verdict>>

(* ------------------------------------------------------------------ *)
(* run_update                                                          *)
(* ------------------------------------------------------------------ *)
WantsUpdateAlways == TRUE
\* if(do_update) ...
WantsUpdate == do_update # 0

\* main calls run_update, which blocks in np_runcmd(APTGET_UPDATE, ...)
BeginUpdate ==
  /\ pc = "Init"
  /\ WantsUpdate
  /\ calls' = Append(calls, Running(APTGET_UPDATE))
  /\ pc' = "Refreshing"
  /\ UNCHANGED <<config, stderr_warning, exec_warning, result,
                 packages_available, alarmRemaining, alarmCalls, outLog,
                 errLog, verdict>>

ExecStateCritical(status) == IF status # 0 THEN STATE_CRITICAL ELSE status
\* if(result != 0){ ... result = STATE_UNKNOWN; ... }
ExecState(status) == IF status # 0 THEN STATE_UNKNOWN ELSE status

\* if(chld_err.buflen){ ... result = max_state(result, STATE_WARNING); ... }
StderrState(r, err) == IF err.buflen # 0 THEN max_state(r, STATE_WARNING) ELSE r

StderrFlagNeverSet(flag, err) == flag
\* if(chld_err.buflen){ stderr_warning=1; ... }
StderrFlag(flag, err) == IF err.buflen # 0 THEN 1 ELSE flag

\* if(result != 0){ exec_warning=1; ... }
ExecFlag(flag, status) == IF status # 0 THEN 1 ELSE flag

\* the value run_update returns
RunUpdateResult(status, err) == StderrState(ExecState(status), err)

\* np_runcmd returns in run_update, run_update returns, main stores the result
RunUpdate(status, out, err) ==
  /\ pc = "Refreshing"
  /\ calls' = Finish(calls, status, out, err)
  /\ exec_warning' = ExecFlag(exec_warning, status)
  /\ errLog' = IF status # 0
                 THEN Append(errLog, [kind |-> "exec_failed", cmd |-> APTGET_UPDATE])
                 ELSE errLog
  /\ stderr_warning' = StderrFlag(stderr_warning, err)
  /\ outLog' = outLog
                 \o (IF verbose # 0 THEN Echo(out.line) ELSE <<>>)
                 \o (IF err.buflen # 0 /\ verbose # 0 THEN Echo(err.line) ELSE <<>>)
  /\ result' = RunUpdateResult(status, err)
  /\ pc' = "Refreshed"
  /\ UNCHANGED <<config, packages_available, alarmRemaining, alarmCalls, verdict>>

(* ------------------------------------------------------------------ *)
(* run_upgrade                                                         *)
(* ------------------------------------------------------------------ *)
\* the command line run_upgrade hands to np_runcmd
UpgradeCommand == IF dist_upgrade = 0 THEN APTGET_UPGRADE ELSE APTGET_DISTUPGRADE

\* the command line run_upgrade prints when the child failed
UpgradeCommandReported == APTGET_UPGRADE

BeginUpgradeRearmed ==
  /\ \/ pc = "Init" /\ ~WantsUpdate
     \/ pc = "Refreshed"
  /\ calls' = Append(calls, Running(UpgradeCommand))
  /\ pc' = "Upgrading"
  /\ alarmRemaining' = timeout_interval
  /\ alarmCalls' = alarmCalls + 1
  /\ UNCHANGED <<config, stderr_warning, exec_warning, result,
                 packages_available, outLog, errLog, verdict>>

\* main calls run_upgrade, which blocks in np_runcmd(APTGET_[DIST]UPGRADE, ...)
BeginUpgrade ==
  /\ \/ pc = "Init" /\ ~WantsUpdate
     \/ pc = "Refreshed"
  /\ calls' = Append(calls, Running(UpgradeCommand))
  /\ pc' = "Upgrading"
  /\ UNCHANGED <<config, stderr_warning, exec_warning, result,
                 packages_available, alarmRemaining, alarmCalls, outLog,
                 errLog, verdict>>

\* the value run_upgrade returns
RunUpgradeResult(status, err) == StderrState(ExecState(status), err)

FoldUpgradeOverwrite(r, u) == u
\* result = max_state(result, run_upgrade(&packages_available));
FoldUpgrade(r, u) == max_state(r, u)

\* np_runcmd returns in run_upgrade, run_upgrade returns, main folds the result
RunUpgrade(status, out, err) ==
  /\ pc = "Upgrading"
  /\ calls' = Finish(calls, status, out, err)
  /\ exec_warning' = ExecFlag(exec_warning, status)
  /\ errLog' = IF status # 0
                 THEN errLog \o <<[kind |-> "exec_failed", cmd |-> UpgradeCommandReported],
                                  [kind |-> "rerun_hint", cmd |-> ""]>>
                 ELSE errLog
  /\ packages_available' = CountInst(out.line, 1)
  /\ stderr_warning' = StderrFlag(stderr_warning, err)
  /\ outLog' = outLog
                 \o (IF verbose # 0 THEN Echo(InstLinesOf(out.line)) ELSE <<>>)
                 \o (IF err.buflen # 0 /\ verbose # 0 THEN Echo(err.line) ELSE <<>>)
  /\ result' = FoldUpgrade(result, RunUpgradeResult(status, err))
  /\ pc' = "Upgraded"
  /\ UNCHANGED <<config, alarmRemaining, alarmCalls, verdict>>

(* ------------------------------------------------------------------ *)
(* main, after the invocations                                         *)
(* ------------------------------------------------------------------ *)
\* if(packages_available > 0) result = max_state(result, STATE_WARNING);
\* else result = max_state(result, STATE_OK);
FoldCount(r, n) == IF n > 0 THEN max_state(r, STATE_WARNING) ELSE max_state(r, STATE_OK)

\* the stderr notice, the status line and the return value
Report ==
  /\ pc = "Upgraded"
  /\ errLog' = IF stderr_warning # 0
                 THEN Append(errLog, [kind |-> "stderr_warning", cmd |-> ""])
                 ELSE errLog
  /\ result' = FoldCount(result, packages_available)
  /\ verdict' = Append(verdict,
                  [severity |-> result',
                   text |-> state_text(result'),
                   updateCount |-> packages_available,
                   target |-> IF dist_upgrade # 0 THEN "dist-upgrade" ELSE "upgrade",
                   stderrWarning |-> stderr_warning # 0,
                   execWarning |-> exec_warning # 0])
  /\ outLog' = Append(outLog, [kind |-> "status", text |-> <<>>])
  /\ pc' = "Done"
  /\ UNCHANGED <<config, stderr_warning, exec_warning, packages_available,
                 alarmRemaining, alarmCalls, calls>>

(* ------------------------------------------------------------------ *)
(* The alarm                                                           *)
(* ------------------------------------------------------------------ *)
\* the process is alive and past alarm()
Alive == pc \in {"Init", "Refreshing", "Refreshed", "Upgrading", "Upgraded"}

\* a second passes; when the alarm runs out SIGALRM is delivered and
\* timeout_alarm_handler ends the process
Tick ==
  /\ Alive
  /\ alarmRemaining > 0
  /\ alarmRemaining' = alarmRemaining - 1
  /\ IF alarmRemaining' = 0
       THEN /\ pc' = "Timeout"
            /\ outLog' = Append(outLog, [kind |-> "timeout", text |-> <<>>])
       ELSE UNCHANGED <<pc, outLog>>
  /\ UNCHANGED <<config, stderr_warning, exec_warning, result,
                 packages_available, alarmCalls, calls, errLog, verdict>>

Next ==
  \/ ArmAlarm
  \/ BeginUpdate
  \/ \E status \in ExitStatuses, out \in UpdateOutputs, err \in ErrOutputs :
       RunUpdate(status, out, err)
  \/ BeginUpgrade
  \/ \E status \in ExitStatuses, out \in UpgradeOutputs, err \in ErrOutputs :
       RunUpgrade(status, out, err)
  \/ Report
  \/ Tick

Spec == Init /\ [][Next]_vars

(* ------------------------------------------------------------------ *)
(* Vocabulary of the properties                                        *)
(* ------------------------------------------------------------------ *)
IsUpgradeCmd(c) == c \in {APTGET_UPGRADE, APTGET_DISTUPGRADE}

RefreshCalls == {i \in DOMAIN calls : calls[i].cmd = APTGET_UPDATE}
UpgradeCalls == {i \in DOMAIN calls : IsUpgradeCmd(calls[i].cmd)}

RefreshFailed == \E i \in RefreshCalls : calls[i].done /\ calls[i].status # 0
UpgradeFailed == \E i \in UpgradeCalls : calls[i].done /\ calls[i].status # 0

\* some performed invocation captured at least one byte on stderr
SomeStderr == \E i \in DOMAIN calls : calls[i].done /\ calls[i].err.buflen > 0

\* the run has produced its verdict
Done == pc = "Done" /\ Len(verdict) = 1

\* the first four characters of the line are exactly I, n, s, t
StartsWithInst(l) ==
  /\ Len(l) >= 4
  /\ l[1] = "I" /\ l[2] = "n" /\ l[3] = "s" /\ l[4] = "t"

\* the number of marker lines the upgrade simulation printed
MarkerLines ==
  IF UpgradeCalls = {} THEN 0
  ELSE LET c == calls[CHOOSE i \in UpgradeCalls : TRUE]
       IN Cardinality({k \in 1..Len(c.out.line) : StartsWithInst(c.out.line[k])})

\* the diagnostics on stderr that name the given command as having failed
FailureLines(cmd) ==
  {k \in DOMAIN errLog : errLog[k].kind = "exec_failed" /\ errLog[k].cmd = cmd}

(* ------------------------------------------------------------------ *)
(* Properties                                                          *)
(* ------------------------------------------------------------------ *)

\* C1: when the upgrade simulation exits non-zero, the verdict is UNKNOWN
\* and execWarning is set, whatever was captured and whether or not the
\* refresh ran.
C1_ExecFailureDominates ==
  (Done /\ UpgradeFailed) =>
    /\ verdict[1].severity = STATE_UNKNOWN
    /\ result = STATE_UNKNOWN
    /\ verdict[1].execWarning

\* a failed upgrade after a clean refresh, with marker lines and no stderr
C1_Witness ==
  /\ Done /\ UpgradeFailed
  /\ do_update = 1 /\ ~RefreshFailed /\ ~SomeStderr
  /\ MarkerLines = 2

\* C2: without refresh, a clean upgrade simulation (exit 0, empty stderr)
\* gives no warning flags, updateCount = number of marker lines, and
\* severity OK for no updates, WARNING otherwise.
C2_CleanRunVerdict ==
  (Done /\ do_update = 0 /\ ~UpgradeFailed /\ ~SomeStderr) =>
    /\ ~verdict[1].stderrWarning
    /\ ~verdict[1].execWarning
    /\ verdict[1].updateCount = MarkerLines
    /\ verdict[1].severity = (IF MarkerLines = 0 THEN STATE_OK ELSE STATE_WARNING)

\* C3: a failed refresh sets execWarning, the run goes on to exactly one
\* upgrade simulation and a verdict, and the severity stays UNKNOWN whatever
\* the later steps contribute.
C3_FailedRefreshContinues ==
  RefreshFailed =>
    /\ exec_warning = 1
    /\ result = STATE_UNKNOWN
    /\ (pc = "Refreshed" => ENABLED BeginUpgrade)
    /\ (pc = "Upgraded" => ENABLED Report)
    /\ (pc = "Done" =>
          /\ Len(calls) = 2
          /\ UpgradeCalls = {2}
          /\ calls[2].done
          /\ Len(verdict) = 1
          /\ verdict[1].severity = STATE_UNKNOWN
          /\ verdict[1].execWarning)

\* a failed refresh followed by a spotless upgrade simulation
C3_Witness ==
  /\ Done /\ RefreshFailed
  /\ ~UpgradeFailed
  /\ calls[1].err.buflen = 0 /\ calls[2].err.buflen = 0
  /\ MarkerLines = 0

\* C4: alarm() is called once, before the first invocation, and the
\* countdown is never raised again; when it runs out during the refresh or
\* the upgrade simulation the run ends in the timeout outcome, which is
\* final and carries no verdict.
C4_TimeoutFatal ==
  /\ [](pc = "Timeout" =>
          /\ verdict = <<>>
          /\ \A k \in DOMAIN outLog : outLog[k].kind # "status")
  /\ [](calls # <<>> => alarmCalls = 1)
  /\ [][/\ alarmCalls' <= 1
        /\ (pc # "main" => alarmRemaining' <= alarmRemaining)
        /\ ((pc \in {"Refreshing", "Upgrading"}
               /\ alarmRemaining > 0 /\ alarmRemaining' = 0) => pc' = "Timeout")
        /\ (pc = "Timeout" => pc' = "Timeout")]_vars

\* the alarm runs out during the upgrade simulation, after a full refresh
C4_Witness ==
  /\ pc = "Timeout"
  /\ Len(calls) = 2
  /\ calls[1].done /\ ~calls[2].done
  /\ timeout_interval = MaxTimeout

\* C5: the upgrade simulation is invoked exactly once in a run that ends
\* with a verdict, the refresh at most once and only with the option set,
\* the refresh has returned before the upgrade simulation starts, and
\* nothing is invoked a second time.
C5_OrderingNoRetries ==
  /\ Cardinality(RefreshCalls) <= 1
  /\ Cardinality(UpgradeCalls) <= 1
  /\ Len(calls) = Cardinality(RefreshCalls) + Cardinality(UpgradeCalls)
  /\ (RefreshCalls # {} => do_update # 0)
  /\ \A i \in DOMAIN calls : ~calls[i].done => i = Len(calls)
  /\ \A i \in RefreshCalls, j \in UpgradeCalls : i < j /\ calls[i].done
  /\ (pc = "Done" => Cardinality(UpgradeCalls) = 1 /\ calls[Len(calls)].done)

\* both commands failed and printed on stderr, and the run still ended
\* after one invocation of each
C5_Witness ==
  /\ Done /\ RefreshFailed /\ UpgradeFailed
  /\ \A i \in DOMAIN calls : calls[i].err.buflen > 0
  /\ Len(calls) = 2

\* C6: main's running result never decreases under
\* OK < WARNING < CRITICAL < UNKNOWN.
C6_AggregationMonotone == [][result' >= result]_vars

\* C7: stderrWarning is set exactly when some performed invocation captured
\* at least one byte of stderr, and then the severity is at least WARNING.
C7_StderrSignal ==
  Done =>
    /\ verdict[1].stderrWarning <=> SomeStderr
    /\ (verdict[1].stderrWarning => verdict[1].severity >= STATE_WARNING)

\* only the refresh wrote to stderr, a single bare newline, with verbose off
C7_Witness ==
  /\ Done /\ verbose = 0
  /\ Len(calls) = 2
  /\ calls[1].err = Capture(<<LineBlank>>)
  /\ calls[2].err.buflen = 0
  /\ verdict[1].stderrWarning

\* C8: when every invocation exits 0 and there are no updates, stderr
\* output makes the severity exactly WARNING.
C8_StderrAloneIsWarning ==
  (Done /\ ~RefreshFailed /\ ~UpgradeFailed /\ verdict[1].updateCount = 0
     /\ SomeStderr) =>
    verdict[1].severity = STATE_WARNING

\* C9: updateCount is the number of upgrade-simulation stdout lines whose
\* first four characters are "Inst", whatever the exit status, stderr,
\* verbosity or refresh output.
C9_UpdateCount ==
  /\ (pc \in {"Upgraded", "Done"} => packages_available = MarkerLines)
  /\ (Done => verdict[1].updateCount = MarkerLines)

\* a too-short line before a marker line, the refresh having printed a
\* marker-looking line, the upgrade simulation having failed with stderr
C9_Witness ==
  /\ Done /\ verbose # 0
  /\ Len(calls) = 2
  /\ calls[1].out.line = <<LineInst>>
  /\ calls[2].out.line = <<LineShort, LineInst>>
  /\ calls[2].status # 0 /\ calls[2].err.buflen > 0
  /\ verdict[1].updateCount = 1

\* C10: each invocation that has returned left exactly one failure line on
\* stderr naming its command line if it exited non-zero, and none if it
\* exited 0.
C10_DiagnosticNamesCommand ==
  \A i \in DOMAIN calls :
    calls[i].done =>
      Cardinality(FailureLines(calls[i].cmd)) = (IF calls[i].status # 0 THEN 1 ELSE 0)

====
